---- MODULE Spec2Model ----
(***************************************************************************)
(* Model of src/pr32_websocket_link/websocket_server.js: the per-connection *)
(* session state kept in the `clients` map, the asynchronous 'message'      *)
(* handler (which suspends at `await movementsCollection.insertOne`), the   *)
(* inactivity timer armed with setTimeout and its callback endGame, and the *)
(* 'close' and 'error' handlers.                                            *)
(*                                                                          *)
(* Node runs every callback to completion, so each action below is one      *)
(* synchronous stretch of code: a handler from its start to its first await *)
(* or return, the continuation after the await, a timer callback, an event  *)
(* handler.                                                                 *)
(*                                                                          *)
(* Values the code writes and never reads are left out: lastMoveTime, the   *)
(* timestamp of a movement document, the endTime of a gameOver message and  *)
(* the text of the log lines.                                               *)
(***************************************************************************)
EXTENDS Integers, Sequences, FiniteSets, TLC

VARIABLES
    now,        \* Date.now(): the current instant of the clock
    nowRead,    \* whether the code has read the clock at this instant
    db,         \* connectDB(): "connecting", "ready" (movementsCollection set), "exited" (process.exit(1))
    clients,    \* keys of the `clients` Map
    readyState, \* per connection: the socket's state
    st,         \* per connection: the clientState object (it outlives clients.delete in the closures)
    timers,     \* per connection: the setTimeout timers that are pending
    inflight,   \* per connection: the 'message' handlers suspended at the await of insertOne
    sent,       \* per connection: the messages ws.send delivered, in order: <<"initialState", x, y>>,
                \* <<"positionUpdate", x, y>>, <<"gameOver", gameId, distance, startTime>>, <<"error", text>>
    requests,   \* per connection: the documents handed to insertOne, in order
    obs         \* per connection: a record of what happened (messages received, the message of the
                \* latest accepted move, timers created, timer callbacks run, gameOver sends attempted, moves accepted since the
                \* last reset); the code keeps none of it and no action reads it but to number things

vars == <<now, nowRead, db, clients, readyState, st, timers, inflight, sent, requests, obs>>

----------------------------------------------------------------------------
(* Bounds *)

\* the connections that may be opened
Conns == {"c1"}
\* the clock stops advancing here
MaxTime == 3
\* messages a connection receives
MaxMsgs == 2

----------------------------------------------------------------------------
(* Values *)

\* process.env.INACTIVITY_TIMEOUT || 10000: the window is configurable; the
\* model runs the server with a window of one clock unit
INACTIVITY_TIMEOUT == 1

\* null for positions and game ids (both are tuples in the model)
Null == <<>>
\* null for a timer handle
NoTimer == 0
\* null for a time
NoTime == 0 - 1

\* the payloads a client may send: {command: <token>} for the first five,
\* a JSON value without a string `command`, and text that is not JSON
Commands == {"up", "down", "left", "right"}
Payloads == Commands \cup {"jump", "{}", "notjson"}

\* (a slip: the type of data.command is not checked)
MalformedOnlyIfUnparseable(m) == m = "notjson"

\* JSON.parse(rawMessage) throws, or typeof data.command !== 'string'
Malformed(m) == m \in {"{}", "notjson"}

\* uuidv4() of the connection and cId.substring(0, 4)
ClientId(c) == <<"c0de", c>>
Substring4(cId) == cId[1]

\* `G_${now}_${cId.substring(0, 4)}`
GameId(t, cId) == <<"G", t, Substring4(cId)>>

\* (a slip: 'left' steps the way 'right' does)
NewPositionLeftSlip(p, cmd) ==
    CASE cmd = "up"    -> <<p[1], p[2] + 1>>
      [] cmd = "down"  -> <<p[1], p[2] - 1>>
      [] cmd = "left"  -> <<p[1] + 1, p[2]>>
      [] cmd = "right" -> <<p[1] + 1, p[2]>>
      [] OTHER         -> p

\* the switch on command: the unit step applied to a copy of currentPosition
NewPosition(p, cmd) ==
    CASE cmd = "up"    -> <<p[1], p[2] + 1>>
      [] cmd = "down"  -> <<p[1], p[2] - 1>>
      [] cmd = "left"  -> <<p[1] - 1, p[2]>>
      [] cmd = "right" -> <<p[1] + 1, p[2]>>
      [] OTHER         -> p

\* Math.sqrt(n) followed by toFixed(2), in hundredths: the integer nearest
\* to 100 * sqrt(n)
SqrtFixed2(n) ==
    LET N == 10000 * n
        r == CHOOSE k \in 0..(100 * (n + 1)) : k * k <= N /\ N < (k + 1) * (k + 1)
    IN  IF N - r * r > r THEN r + 1 ELSE r

\* (a slip: the vertical displacement is left out of the sum)
DistanceXOnly(startPosition, lastPosition) ==
    IF startPosition # Null /\ lastPosition # Null
    THEN SqrtFixed2((lastPosition[1] - startPosition[1]) * (lastPosition[1] - startPosition[1]))
    ELSE 0

\* the distance endGame reports, in hundredths
Distance(startPosition, lastPosition) ==
    IF startPosition # Null /\ lastPosition # Null
    THEN SqrtFixed2((lastPosition[1] - startPosition[1]) * (lastPosition[1] - startPosition[1])
                    + (lastPosition[2] - startPosition[2]) * (lastPosition[2] - startPosition[2]))
    ELSE 0

\* the object clients.set(ws, {...}) stores
InitialClientState(c) ==
    [clientId        |-> ClientId(c),
     currentGameId   |-> Null,
     startPosition   |-> Null,
     currentPosition |-> <<0, 0>>,
     lastPosition    |-> Null,
     inactivityTimer |-> NoTimer,
     gameStartTime   |-> NoTime]

\* ws.send(...) inside try/catch: the message goes out when the socket is
\* open, otherwise the send fails and the failure is only logged
Send(c, out, msg) == IF readyState[c] = "open" THEN Append(out, msg) ELSE out

\* clearTimeout(handle): a null, fired or cleared handle is ignored
ClearTimeout(ts, handle) == {t \in ts : t.id # handle}

----------------------------------------------------------------------------
(* Initial state: the module has been loaded; the server listens, connectDB *)
(* has been called and has not finished, nobody is connected.               *)

Init ==
    /\ now = 0
    /\ nowRead = FALSE
    /\ db = "connecting"
    /\ clients = {}
    /\ readyState = [c \in Conns |-> "new"]
    /\ st = [c \in Conns |-> InitialClientState(c)]
    /\ timers = [c \in Conns |-> {}]
    /\ inflight = [c \in Conns |-> {}]
    /\ sent = [c \in Conns |-> <<>>]
    /\ requests = [c \in Conns |-> <<>>]
    /\ obs = [c \in Conns |-> [received |-> 0, lastMove |-> 0, armed |-> 0, fired |-> 0, summaries |-> 0, moves |-> <<>>]]

Running == db # "exited"

----------------------------------------------------------------------------
(* Environment *)

\* time passes. Instants at which the code does not read the clock cannot be
\* told apart from their neighbours, so the clock is advanced only past an
\* instant that was read
Tick ==
    /\ Running
    /\ nowRead
    /\ now < MaxTime
    /\ now' = now + 1
    /\ nowRead' = FALSE
    /\ UNCHANGED <<db, clients, readyState, st, timers, inflight, sent, requests, obs>>

\* connectDB succeeds: movementsCollection is set
ConnectDB ==
    /\ db = "connecting"
    /\ db' = "ready"
    /\ UNCHANGED <<now, nowRead, clients, readyState, st, timers, inflight, sent, requests, obs>>

\* connectDB fails: process.exit(1)
ConnectDBFail ==
    /\ db = "connecting"
    /\ db' = "exited"
    /\ UNCHANGED <<now, nowRead, clients, readyState, st, timers, inflight, sent, requests, obs>>

\* the peer starts closing: the socket leaves the OPEN state before the
\* 'close' event is delivered
BeginClose(c) ==
    /\ Running
    /\ readyState[c] = "open"
    /\ readyState' = [readyState EXCEPT ![c] = "closing"]
    /\ UNCHANGED <<now, nowRead, db, clients, st, timers, inflight, sent, requests, obs>>

----------------------------------------------------------------------------
(* wss.on('connection') *)

OnConnection(c) ==
    /\ Running
    /\ readyState[c] = "new"
    /\ readyState' = [readyState EXCEPT ![c] = "open"]
    /\ clients' = clients \cup {c}
    /\ st' = [st EXCEPT ![c] = InitialClientState(c)]
    /\ sent' = [sent EXCEPT ![c] = Append(@, <<"initialState", 0, 0>>)]
    /\ UNCHANGED <<now, nowRead, db, timers, inflight, requests, obs>>

----------------------------------------------------------------------------
(* endGame(wsClient): the state, timers and outbox it leaves                *)

\* (a slip: the callback works on the state object its closure holds and
\* does not look the connection up in the map)
EndGameRunsOnClosureState(c) == st[c].currentGameId # Null

\* line 76: the guard; endGame goes on when the connection is registered
\* and a session is open
EndGameRuns(c) == c \in clients /\ st[c].currentGameId # Null

\* (a slip: the first failed send ends the function, as if lines 95-123 were
\* one try block)
EndGameStateAbortsOnSendFailure(c) ==
    IF ~EndGameRuns(c) \/ readyState[c] # "open" THEN st[c]
    ELSE [st[c] EXCEPT !.currentGameId = Null,
                       !.startPosition = Null,
                       !.lastPosition = Null,
                       !.currentPosition = <<0, 0>>,
                       !.inactivityTimer = NoTimer,
                       !.gameStartTime = NoTime]

EndGameState(c) ==
    IF ~EndGameRuns(c) THEN st[c]
    ELSE [st[c] EXCEPT !.currentGameId = Null,
                       !.startPosition = Null,
                       !.lastPosition = Null,
                       !.currentPosition = <<0, 0>>,
                       !.inactivityTimer = NoTimer,
                       !.gameStartTime = NoTime]

EndGameTimers(c, ts) ==
    IF ~EndGameRuns(c) THEN ts ELSE ClearTimeout(ts, st[c].inactivityTimer)

EndGameSent(c) ==
    IF ~EndGameRuns(c) THEN sent[c]
    ELSE LET gameOver == <<"gameOver", st[c].currentGameId,
                           Distance(st[c].startPosition, st[c].lastPosition),
                           st[c].gameStartTime>>
         IN  Send(c, Send(c, sent[c], gameOver), <<"positionUpdate", 0, 0>>)

\* the callback given to setTimeout: timer t of connection c fires
TimerFire(c, t) ==
    /\ Running
    /\ t \in timers[c]
    /\ now >= t.due
    /\ st' = [st EXCEPT ![c] = EndGameState(c)]
    /\ timers' = [timers EXCEPT ![c] = EndGameTimers(c, @ \ {t})]
    /\ sent' = [sent EXCEPT ![c] = EndGameSent(c)]
    /\ obs' = [obs EXCEPT ![c].fired = @ + 1,
                          ![c].summaries = IF EndGameRuns(c) THEN @ + 1 ELSE @,
                          ![c].moves = IF EndGameRuns(c) THEN <<>> ELSE @]
    /\ UNCHANGED <<now, nowRead, db, clients, readyState, inflight, requests>>

----------------------------------------------------------------------------
(* ws.on('message'): from the start of the handler to its first await or    *)
(* return                                                                   *)

\* lines 145-150: a session is opened when none is
OpenGame(s) ==
    IF s.currentGameId = Null
    THEN [s EXCEPT !.currentGameId = GameId(now, s.clientId),
                   !.startPosition = s.currentPosition,
                   !.gameStartTime = now]
    ELSE s

\* (a slip: the new position is stored in startPosition as well)
ApplyMoveOverwritesStart(s, cmd) ==
    LET newPosition == NewPosition(s.currentPosition, cmd)
    IN  [s EXCEPT !.currentPosition = newPosition,
                  !.lastPosition = newPosition,
                  !.startPosition = newPosition]

\* lines 176-178: the move is applied
ApplyMove(s, cmd) ==
    LET newPosition == NewPosition(s.currentPosition, cmd)
    IN  [s EXCEPT !.currentPosition = newPosition,
                  !.lastPosition = newPosition]

OnMessage(c, m) ==
    /\ Running
    /\ readyState[c] = "open"
    /\ LET seq == obs[c].received + 1
           opened == OpenGame(st[c])
           moved == ApplyMove(opened, m)
       IN
       IF c \notin clients
       THEN \* line 128: not registered
            /\ obs' = [obs EXCEPT ![c].received = seq]
            /\ UNCHANGED <<st, sent, requests, inflight>>
       ELSE IF Malformed(m)
       THEN \* lines 136-138 throw; the catch at 216 replies
            /\ sent' = [sent EXCEPT ![c] = Send(c, @, <<"error", "procesando">>)]
            /\ obs' = [obs EXCEPT ![c].received = seq]
            /\ UNCHANGED <<st, requests, inflight>>
       ELSE IF m \notin Commands
       THEN \* the switch's default: reply and return
            /\ st' = [st EXCEPT ![c] = opened]
            /\ sent' = [sent EXCEPT ![c] = Send(c, @, <<"error", "no reconocido">>)]
            /\ obs' = [obs EXCEPT ![c].received = seq]
            /\ UNCHANGED <<requests, inflight>>
       ELSE /\ st' = [st EXCEPT ![c] = moved]
            /\ obs' = [obs EXCEPT ![c].received = seq,
                                  ![c].lastMove = seq,
                                  ![c].moves = Append(@, m)]
            /\ IF db # "ready"
               THEN \* line 190: the collection is not initialised: return
                    UNCHANGED <<requests, inflight>>
               ELSE \* line 194: insertOne is called and the handler suspends
                    /\ requests' = [requests EXCEPT ![c] =
                           Append(@, [gameId |-> moved.currentGameId, command |-> m,
                                      pos |-> moved.currentPosition])]
                    /\ inflight' = [inflight EXCEPT ![c] =
                           @ \cup {[seq |-> seq, newPosition |-> moved.currentPosition]}]
            /\ UNCHANGED sent
    /\ nowRead' = (nowRead \/ (c \in clients /\ ~Malformed(m) /\ st[c].currentGameId = Null))
    /\ UNCHANGED <<now, db, clients, readyState, timers>>

\* the timer a resuming handler creates
NewTimer(c, h) ==
    [id |-> obs[c].armed + 1, due |-> now + INACTIVITY_TIMEOUT, move |-> h.seq]

\* (a slip: the new timer is scheduled without clearing the previous one)
RearmWithoutClear(c, h) == timers[c] \cup {NewTimer(c, h)}

\* lines 210-214: clearTimeout(clientState.inactivityTimer), then setTimeout
Rearm(c, h) == ClearTimeout(timers[c], st[c].inactivityTimer) \cup {NewTimer(c, h)}

\* lines 195-214: insertOne has settled (resolved or rejected) and handler h
\* continues: it replies and re-arms the inactivity timer
OnMessageResume(c, h) ==
    /\ Running
    /\ h \in inflight[c]
    /\ sent' = [sent EXCEPT ![c] =
           Send(c, @, <<"positionUpdate", h.newPosition[1], h.newPosition[2]>>)]
    /\ timers' = [timers EXCEPT ![c] = Rearm(c, h)]
    /\ st' = [st EXCEPT ![c].inactivityTimer = NewTimer(c, h).id]
    /\ obs' = [obs EXCEPT ![c].armed = NewTimer(c, h).id]
    /\ inflight' = [inflight EXCEPT ![c] = @ \ {h}]
    /\ nowRead' = TRUE
    /\ UNCHANGED <<now, db, clients, readyState, requests>>

----------------------------------------------------------------------------
(* ws.on('close') and ws.on('error')                                        *)

\* what both handlers do with the map and the timer
Unregister(c) ==
    /\ timers' = [timers EXCEPT ![c] =
           IF c \in clients /\ st[c].inactivityTimer # NoTimer
           THEN ClearTimeout(@, st[c].inactivityTimer) ELSE @]
    /\ clients' = clients \ {c}

\* 'close': the entry is removed and its timer cleared
OnClose(c) ==
    /\ Running
    /\ readyState[c] \in {"open", "closing"}
    /\ readyState' = [readyState EXCEPT ![c] = "closed"]
    /\ Unregister(c)
    /\ UNCHANGED <<now, nowRead, db, st, inflight, sent, requests, obs>>

\* 'error': the same. The 'close' event that follows an 'error' finds no
\* entry and only logs (line 235), so the socket is taken as closed here
OnError(c) ==
    /\ Running
    /\ readyState[c] \in {"open", "closing"}
    /\ readyState' = [readyState EXCEPT ![c] = "closed"]
    /\ Unregister(c)
    /\ UNCHANGED <<now, nowRead, db, st, inflight, sent, requests, obs>>

----------------------------------------------------------------------------

Next ==
    \/ Tick
    \/ ConnectDB
    \/ ConnectDBFail
    \/ \E c \in Conns : OnConnection(c)
    \/ \E c \in Conns : \E m \in Payloads : obs[c].received < MaxMsgs /\ OnMessage(c, m)
    \/ \E c \in Conns : \E h \in inflight[c] : OnMessageResume(c, h)
    \/ \E c \in Conns : \E t \in timers[c] : TimerFire(c, t)
    \/ \E c \in Conns : BeginClose(c)
    \/ \E c \in Conns : OnClose(c)
    \/ \E c \in Conns : OnError(c)

Spec == Init /\ [][Next]_vars

\* the same program driven by a client that only ever sends {command: "right"}
\* and never disconnects: a part of the behaviours of Spec, explored deeper
MaxBurst == 4

NextBurst ==
    \/ Tick
    \/ ConnectDB
    \/ \E c \in Conns : OnConnection(c)
    \/ \E c \in Conns : obs[c].received < MaxBurst /\ OnMessage(c, "right")
    \/ \E c \in Conns : \E h \in inflight[c] : OnMessageResume(c, h)
    \/ \E c \in Conns : \E t \in timers[c] : TimerFire(c, t)

SpecBurst == Init /\ [][NextBurst]_vars

\* the same program driven by a client that sends {command: "right"} and
\* {command: "jump"} in any order and never disconnects: another part of the
\* behaviours of Spec, explored one message deeper
MaxMix == 3

NextMix ==
    \/ Tick
    \/ ConnectDB
    \/ \E c \in Conns : OnConnection(c)
    \/ \E c \in Conns : \E m \in {"right", "jump"} : obs[c].received < MaxMix /\ OnMessage(c, m)
    \/ \E c \in Conns : \E h \in inflight[c] : OnMessageResume(c, h)
    \/ \E c \in Conns : \E t \in timers[c] : TimerFire(c, t)

SpecMix == Init /\ [][NextMix]_vars

----------------------------------------------------------------------------
(* Observations used by the properties *)

\* endGame ran past its guard in this step: only endGame clears currentGameId
EndGameExecutes(c) == st[c].currentGameId # Null /\ st'[c].currentGameId = Null

\* a 'message' handler of c is in progress: suspended at the await, its move
\* applied and its timer not yet re-armed
HandlerInProgress(c) == inflight[c] # {}

IsGameOver(msg) == msg[1] = "gameOver"
GameOverIndices(c) == {i \in DOMAIN sent[c] : IsGameOver(sent[c][i])}

----------------------------------------------------------------------------
(* C1 *)

\* C1: for one connection, command processing and the inactivity callback
\* are mutually exclusive: endGame never executes for a connection while a
\* command handler of that connection is in progress (suspended at the
\* persistence call, between its update of the position and its re-arming
\* of the timer).
C1_EndGameExcludesHandler ==
    [][\A c \in Conns : HandlerInProgress(c) => ~EndGameExecutes(c)]_vars

----------------------------------------------------------------------------
(* C2 *)

\* C2: a command accepted while a timer is pending supersedes that timer:
\* every session close is triggered by the timer armed for the connection's
\* most recently accepted move.
C2_CloseByLatestTimer ==
    [][\A c \in Conns : \A t \in timers[c] \ timers'[c] :
          EndGameExecutes(c) => t.move = obs[c].lastMove]_vars

----------------------------------------------------------------------------
(* C3 *)

\* C3: for every session (every generated gameId) at most one gameOver
\* carrying that gameId is ever sent, it is sent before the session fields
\* are cleared (it carries the session's id and start time), and each
\* gameOver is followed immediately by positionUpdate {0,0}.
C3_OneGameOverPerGame ==
    \A c \in Conns : \A i \in GameOverIndices(c) :
        /\ \A j \in GameOverIndices(c) : sent[c][i][2] = sent[c][j][2] => i = j
        /\ sent[c][i][2] # Null
        /\ sent[c][i][4] # NoTime
        /\ i < Len(sent[c])
        /\ sent[c][i + 1] = <<"positionUpdate", 0, 0>>

----------------------------------------------------------------------------
(* C4 *)

\* C4: a well-formed message whose command is not up/down/left/right,
\* received in any session state, yields exactly one error reply and leaves
\* every field of the session unchanged: no session is opened, no timer is
\* armed or re-armed, no move-event record is persisted.
C4_UnknownCommandChangesNothing ==
    [][\A c \in Conns : (c \in clients /\ OnMessage(c, "jump")) =>
          /\ st'[c] = st[c]
          /\ timers'[c] = timers[c]
          /\ requests'[c] = requests[c]
          /\ inflight'[c] = inflight[c]
          /\ sent'[c] = Append(sent[c], <<"error", "no reconocido">>)]_vars

----------------------------------------------------------------------------
(* C5 *)

\* nothing of connection c is pending: no handler is suspended and no timer
\* is armed, so without a new message nothing more happens on it
Quiescent(c) == inflight[c] = {} /\ timers[c] = {}

\* C5: every open session eventually ends by inactivity. In its finite
\* form: when the connection is open and nothing of it is pending any more
\* (every timer has fired, every persistence call has completed), no
\* session is open and the position is back at {0,0}.
C5_SessionEndsByInactivity ==
    \A c \in Conns : (c \in clients /\ readyState[c] = "open" /\ Quiescent(c)) =>
        /\ st[c].currentGameId = Null
        /\ st[c].currentPosition = <<0, 0>>

----------------------------------------------------------------------------
(* C6 *)

\* C6: for every registered connection the session is Active iff
\* startPosition is set, and whenever currentGameId is null, startPosition
\* is null and no inactivity timer is pending.
C6_IdleMeansCleared ==
    \A c \in clients :
        /\ (st[c].currentGameId # Null) <=> (st[c].startPosition # Null)
        /\ st[c].currentGameId = Null => (st[c].startPosition = Null /\ timers[c] = {})

----------------------------------------------------------------------------
(* C7 *)

\* C7: once a connection has been closed or has errored, no inactivity
\* timer of it is pending (so none fires later), also when a handler was
\* suspended at the persistence call at that moment and resumes afterwards.
C7_NoTimerAfterClose ==
    \A c \in Conns : readyState[c] = "closed" => timers[c] = {}

----------------------------------------------------------------------------
(* C8 *)

\* a timer callback of c runs in this step: a timer leaves the pending set
\* and no handler resumes (the 'close' and 'error' handlers run only for
\* registered connections)
TimerCallbackRuns(c) == timers'[c] # timers[c] /\ inflight'[c] = inflight[c]

\* C8: after a connection's close or error event no gameOver is sent on it,
\* whatever session was open and whatever handlers or timers are
\* outstanding; a timer callback that runs after the session was removed
\* changes no state and sends nothing.
C8_NoGameOverAfterClose ==
    [][\A c \in Conns :
          /\ readyState[c] = "closed" =>
                 /\ obs'[c].summaries = obs[c].summaries
                 /\ {i \in DOMAIN sent'[c] : IsGameOver(sent'[c][i])} = GameOverIndices(c)
          /\ (c \notin clients /\ TimerCallbackRuns(c)) =>
                 (st'[c] = st[c] /\ sent'[c] = sent[c])]_vars

\* the connection was closed with a session open and a handler suspended;
\* the handler resumed, armed a timer, and that timer has fired
C8_Witness ==
    \E c \in Conns :
        /\ readyState[c] = "closed" /\ c \notin clients
        /\ obs[c].received = 1 /\ obs[c].armed = 1 /\ obs[c].fired = 1
        /\ st[c].currentGameId # Null
        /\ Quiescent(c)

----------------------------------------------------------------------------
(* C9 *)

\* C9: each connection has at most one pending inactivity timer at any
\* time, also when several handlers of the connection are suspended at the
\* persistence call and resume in any order.
C9_AtMostOneTimer ==
    \A c \in Conns : Cardinality(timers[c]) <= 1

\* two handlers were suspended together and resumed in the opposite order:
\* the pending timer is the one armed second, by the first message's handler
C9_Witness ==
    \E c \in Conns : \E t \in timers[c] :
        /\ obs[c].armed = 2 /\ t.id = 2
        /\ t.move = 1 /\ obs[c].lastMove = 2

----------------------------------------------------------------------------
(* C10 *)

\* the unit step of a command, as the specification states it
StepOf(cmd) ==
    CASE cmd = "up" -> <<0, 1>> [] cmd = "down" -> <<0, 0 - 1>>
      [] cmd = "left" -> <<0 - 1, 0>> [] cmd = "right" -> <<1, 0>>

RECURSIVE SumSteps(_)
SumSteps(cmds) ==
    IF cmds = <<>> THEN <<0, 0>>
    ELSE LET rest == SumSteps(Tail(cmds))
             step == StepOf(Head(cmds))
         IN  <<rest[1] + step[1], rest[2] + step[2]>>

\* C10: currentPosition equals the position at the last reset ({0,0}, as at
\* registration) plus the sum of the unit steps of the commands accepted
\* since, whatever the overlap of their handlers: no move is lost or
\* applied twice.
C10_PositionIsSumOfSteps ==
    \A c \in Conns : st[c].currentPosition = SumSteps(obs[c].moves)

\* two moves accepted in one session while their handlers overlap
C10_Witness ==
    \E c \in Conns :
        /\ obs[c].moves = <<"left", "up">>
        /\ Cardinality(inflight[c]) = 2
        /\ st[c].currentPosition = <<0 - 1, 1>>

----------------------------------------------------------------------------
(* C11 *)

\* a gameOver message is sent in this step: it is the first message the
\* step appends to the outbox
GameOverSentNow(c) ==
    /\ Len(sent'[c]) > Len(sent[c])
    /\ IsGameOver(sent'[c][Len(sent[c]) + 1])

\* d (in hundredths) is the number with two decimals nearest to the square
\* root of n
IsSqrtTo2Decimals(d, n) ==
    /\ d >= 0
    /\ d = 0 => n = 0
    /\ d > 0 => (2 * d - 1) * (2 * d - 1) <= 40000 * n
    /\ 40000 * n < (2 * d + 1) * (2 * d + 1)

SquaredLength(v) == v[1] * v[1] + v[2] * v[2]

\* C11: the distance a gameOver reports is the Euclidean distance between
\* the position the connection had when the session opened and the position
\* after the last move accepted in it: a session opens where the last reset
\* left the connection, so its square is the squared length of the sum of
\* the steps accepted since; the gameOver is followed by positionUpdate
\* {0,0}.
C11_DistanceIsEuclidean ==
    [][\A c \in Conns : GameOverSentNow(c) =>
          LET n == Len(sent[c])
              displacement == SumSteps(obs[c].moves)
              before == SumSteps(<<>>)
          IN  /\ st[c].startPosition = before
              /\ IsSqrtTo2Decimals(sent'[c][n + 1][3], SquaredLength(displacement))
              /\ Len(sent'[c]) = n + 2
              /\ sent'[c][n + 2] = <<"positionUpdate", 0, 0>>]_vars

\* right, up from {0,0} and then silence: gameOver with distance 1.41 and a
\* trailing positionUpdate {0,0}
C11_Witness ==
    \E c \in Conns :
        sent[c] = <<<<"initialState", 0, 0>>, <<"positionUpdate", 1, 0>>,
                    <<"positionUpdate", 1, 1>>, <<"gameOver", GameId(0, ClientId(c)), 141, 0>>,
                    <<"positionUpdate", 0, 0>>>>

----------------------------------------------------------------------------
(* C12 *)

\* a move of c is accepted in this step: the position is updated by a
\* 'message' handler
MoveAccepted(c) == Len(obs'[c].moves) = Len(obs[c].moves) + 1

\* C12: the positionUpdate reply of an accepted move does not wait for the
\* persistence request of that move: the reply has been sent by the time the
\* handler is waiting for insertOne, so it is sent even if the request never
\* completes.
C12_ReplyDoesNotWaitForPersistence ==
    [][\A c \in Conns : (MoveAccepted(c) /\ inflight'[c] # inflight[c]) =>
          sent'[c] = Append(sent[c], <<"positionUpdate", st'[c].currentPosition[1],
                                       st'[c].currentPosition[2]>>)]_vars

----------------------------------------------------------------------------
(* C13 *)

\* the reply of this step's move is sent and a new inactivity timer armed
RepliedAndRearmed(c) ==
    /\ sent'[c] = Append(sent[c], <<"positionUpdate", st'[c].currentPosition[1],
                                    st'[c].currentPosition[2]>>)
    /\ \E t \in timers'[c] : t \notin timers[c]

\* C13: a persistence failure never aborts the reply of an accepted move:
\* whether the insert succeeds, fails or the collection is not initialised,
\* the positionUpdate is sent and the timer re-armed. For the step that
\* accepts the move: either it replies and re-arms itself, or it leaves the
\* handler waiting for insertOne, which replies and re-arms when it resumes.
C13_PersistenceNeverAbortsReply ==
    [][\A c \in Conns :
          /\ MoveAccepted(c) => (inflight'[c] # inflight[c] \/ RepliedAndRearmed(c))
          /\ \A h \in inflight[c] \ inflight'[c] :
                 /\ \E t \in timers'[c] : t \notin timers[c]
                 /\ readyState[c] = "open" =>
                        sent'[c] = Append(sent[c], <<"positionUpdate", h.newPosition[1],
                                                     h.newPosition[2]>>)]_vars

----------------------------------------------------------------------------
(* C14 *)

\* C14: the persistence requests of a connection are exactly its accepted
\* moves, in acceptance order: every step that accepts a move issues one
\* request carrying that command and the position after it, and no other
\* step (a rejected command, a session end) issues any.
C14_OneRequestPerAcceptedMove ==
    [][\A c \in Conns :
          IF MoveAccepted(c)
          THEN requests'[c] =
                   Append(requests[c],
                          [gameId |-> st'[c].currentGameId,
                           command |-> obs'[c].moves[Len(obs'[c].moves)],
                           pos |-> st'[c].currentPosition])
          ELSE requests'[c] = requests[c]]_vars

----------------------------------------------------------------------------
(* C15 *)

IsPositionUpdate(msg) == msg[1] = "positionUpdate"

\* the positionUpdate messages sent on c, in order
PositionUpdates(c) == SelectSeq(sent[c], IsPositionUpdate)

\* the reply the k-th of the commands cmds calls for
ReplyOf(cmds, k) ==
    LET p == SumSteps(SubSeq(cmds, 1, k)) IN <<"positionUpdate", p[1], p[2]>>

\* C15: n valid commands accepted with no timeout in between get exactly n
\* positionUpdate replies, in the order the commands were accepted, the k-th
\* carrying the position after the k-th command, and no gameOver. On an open
\* connection on which no session has ended and every move reached the
\* persistence call: the replies sent so far are the first replies of that
\* list, and all of them once no handler is waiting.
C15_RepliesInCommandOrder ==
    \A c \in Conns :
        (/\ readyState[c] = "open"
         /\ obs[c].summaries = 0
         /\ Len(requests[c]) = Len(obs[c].moves)) =>
            /\ GameOverIndices(c) = {}
            /\ Len(PositionUpdates(c)) <= Len(obs[c].moves)
            /\ \A k \in 1..Len(PositionUpdates(c)) :
                   PositionUpdates(c)[k] = ReplyOf(obs[c].moves, k)
            /\ inflight[c] = {} => Len(PositionUpdates(c)) = Len(obs[c].moves)

----------------------------------------------------------------------------
(* C16 *)

\* C16: a message that is not JSON, or whose command is missing or not a
\* string, yields exactly one error reply and has no other effect: no
\* session field changes, no session is opened, no timer is armed or
\* re-armed, no move-event record is persisted.
C16_MalformedMessageChangesNothing ==
    [][\A c \in Conns : \A m \in {"{}", "notjson"} :
          (c \in clients /\ OnMessage(c, m)) =>
              /\ st'[c] = st[c]
              /\ timers'[c] = timers[c]
              /\ requests'[c] = requests[c]
              /\ inflight'[c] = inflight[c]
              /\ obs'[c].moves = obs[c].moves
              /\ sent'[c] = Append(sent[c], <<"error", "procesando">>)]_vars

\* a malformed message arrived last, on a connection with a session open
\* and its timer armed, and was answered
C16_Witness ==
    \E c \in Conns :
        /\ obs[c].received = 2
        /\ sent[c][Len(sent[c])] = <<"error", "procesando">>
        /\ st[c].currentGameId # Null
        /\ timers[c] # {}

----------------------------------------------------------------------------
(* C17 *)

\* a session of c is opened in this step
SessionOpens(c) == st[c].currentGameId = Null /\ st'[c].currentGameId # Null

\* C17: opening a session does not reset currentPosition: startPosition is
\* the currentPosition held just before the opening move is applied, and
\* every change of a registered connection's currentPosition is either the
\* unit step of the command accepted in that step or the reset to {0,0} of
\* an inactivity-driven session end.
C17_OnlySessionEndResetsPosition ==
    [][\A c \in clients :
          /\ SessionOpens(c) =>
                 /\ st'[c].startPosition = st[c].currentPosition
                 /\ ~MoveAccepted(c) => st'[c].currentPosition = st[c].currentPosition
          /\ st'[c].currentPosition # st[c].currentPosition =>
                 \/ /\ EndGameExecutes(c)
                    /\ TimerCallbackRuns(c)
                    /\ st'[c].currentPosition = <<0, 0>>
                 \/ /\ MoveAccepted(c)
                    /\ LET step == StepOf(obs'[c].moves[Len(obs'[c].moves)])
                       IN  st'[c].currentPosition = <<st[c].currentPosition[1] + step[1],
                                                      st[c].currentPosition[2] + step[2]>>]_vars

\* a session ended by inactivity, the position was reset, and the next
\* session was opened by a move from there
C17_Witness ==
    \E c \in clients :
        /\ obs[c].summaries = 1
        /\ st[c].currentGameId # Null
        /\ st[c].startPosition = <<0, 0>>
        /\ st[c].currentPosition = <<1, 0>>

----------------------------------------------------------------------------
(* C18 *)

\* the socket of c does not take a send
SendFails(c) == readyState[c] # "open"

\* a suspended handler of c continues in this step
HandlerResumes(c) == \E h \in inflight[c] : inflight'[c] = inflight[c] \ {h}

\* endGame of c gets as far as its gameOver send in this step
SummaryAttempted(c) == obs'[c].summaries = obs[c].summaries + 1

\* C18: a failed transport send never aborts the rest of the transition:
\* when the positionUpdate of a handler cannot be sent, the applied move
\* stays and the inactivity timer is re-armed all the same; when the
\* gameOver cannot be sent, the session fields are cleared and the position
\* is reset to {0,0} all the same (the attempt of the trailing
\* positionUpdate leaves no trace but a log line).
C18_SendFailureDoesNotAbort ==
    [][\A c \in Conns : SendFails(c) =>
          /\ HandlerResumes(c) =>
                 /\ sent'[c] = sent[c]
                 /\ st'[c].currentPosition = st[c].currentPosition
                 /\ st'[c].lastPosition = st[c].lastPosition
                 /\ \E t \in timers'[c] \ timers[c] :
                        /\ st'[c].inactivityTimer = t.id
                        /\ t.due = now + INACTIVITY_TIMEOUT
          /\ SummaryAttempted(c) =>
                 /\ sent'[c] = sent[c]
                 /\ st'[c].currentGameId = Null
                 /\ st'[c].startPosition = Null
                 /\ st'[c].lastPosition = Null
                 /\ st'[c].gameStartTime = NoTime
                 /\ st'[c].inactivityTimer = NoTimer
                 /\ st'[c].currentPosition = <<0, 0>>]_vars

\* the socket went to CLOSING while a handler was suspended: the handler's
\* reply was lost, its timer was armed and fired, the gameOver was lost and
\* the session was cleared
C18_Witness ==
    \E c \in clients :
        /\ readyState[c] = "closing"
        /\ obs[c].received = 1 /\ obs[c].armed = 1 /\ obs[c].fired = 1
        /\ obs[c].summaries = 1
        /\ sent[c] = <<<<"initialState", 0, 0>>>>
        /\ st[c].currentGameId = Null
        /\ st[c].currentPosition = <<0, 0>>

----------------------------------------------------------------------------
(* C19 *)

\* C19: every gameOver is emitted for a session in which at least one move
\* was accepted: whenever endGame emits a summary, lastPosition is set for
\* that session.
C19_SummaryOnlyAfterMove ==
    [][\A c \in Conns : GameOverSentNow(c) =>
          /\ st[c].lastPosition # Null
          /\ obs[c].moves # <<>>]_vars

----------------------------------------------------------------------------
(* C20 *)

\* websocket_client.js, ws.on('message'): the messages that carry a position
CarriesPosition(msg) == msg[1] \in {"initialState", "positionUpdate"}

\* websocket_client.js: the client's currentPosition after it has handled
\* every message sent to it so far ({0,0} until the first one)
ClientView(c) ==
    LET updates == SelectSeq(sent[c], CarriesPosition)
    IN  IF updates = <<>> THEN <<0, 0>>
        ELSE <<updates[Len(updates)][2], updates[Len(updates)][3]>>

\* C20: the client's view converges to the server's state: whenever a
\* connection is open and no command handler of it is in flight, the
\* position carried by the most recent initialState or positionUpdate sent
\* on that connection equals the server's currentPosition for it.
C20_ClientViewConverges ==
    \A c \in clients :
        (readyState[c] = "open" /\ inflight[c] = {}) =>
            ClientView(c) = st[c].currentPosition

====
